---- MODULE Spec2Model ----
(***************************************************************************)
(* State-machine model of src/app.py: the upload -> load_data ->           *)
(* clean_data -> tab1..tab4 aggregation script of the Spotify dashboard.   *)
(*                                                                         *)
(* One script run is one behaviour.  File names are sequences of           *)
(* characters so that the classification of load_data is a real            *)
(* case-sensitive substring test.  Timestamps are calendar fields of the   *)
(* year 2024; the conversion to US/Central is computed with the offset in  *)
(* force at the instant.  A pandas table is the sequence of its rows, a    *)
(* row a record; a column exists when some row has the field.              *)
(***************************************************************************)
EXTENDS Integers, Sequences, FiniteSets, TLC

VARIABLES
    uploaded_files,   \* what st.file_uploader returned: a sequence of blobs
    pc,               \* position of the script run
    data,             \* the dict load_data returned
    df,               \* the canonical table clean_data returned
    res,              \* the aggregation values computed so far
    shown,            \* names of the results handed to the page
    ui,               \* st.info / st.warning / st.error / st.success calls, in order
    col,              \* ranking study: the column ranked
    topn,             \* ranking study: the N given to head
    ranked            \* ranking study: value_counts().head(N) of col

vars == << uploaded_files, pc, data, df, res, shown, ui, col, topn, ranked >>

-----------------------------------------------------------------------------
(* Bounds of the model *)

MaxFiles == 2
MaxRows == 3
MaxCol == 6

(* Constants of the program *)

MinMsPlayed == 30000
Top10 == 10
Top5 == 5

-----------------------------------------------------------------------------
(* File names and the tokens of load_data *)

\* "StreamingHistory"
TOKEN_STREAMING ==
    << "S", "t", "r", "e", "a", "m", "i", "n", "g", "H", "i", "s", "t", "o", "r", "y" >>
\* "Wrapped"
TOKEN_WRAPPED ==
    << "W", "r", "a", "p", "p", "e", "d" >>
\* "SearchQueries"
TOKEN_SEARCH ==
    << "S", "e", "a", "r", "c", "h", "Q", "u", "e", "r", "i", "e", "s" >>
\* "StreamingHistory0.json"
NameStreaming0 ==
    << "S", "t", "r", "e", "a", "m", "i", "n", "g", "H", "i", "s", "t", "o", "r", "y", "0", ".", "j", "s", "o", "n" >>
\* "StreamingHistory1.json"
NameStreaming1 ==
    << "S", "t", "r", "e", "a", "m", "i", "n", "g", "H", "i", "s", "t", "o", "r", "y", "1", ".", "j", "s", "o", "n" >>
\* "streaminghistory2.json"
NameLowercase ==
    << "s", "t", "r", "e", "a", "m", "i", "n", "g", "h", "i", "s", "t", "o", "r", "y", "2", ".", "j", "s", "o", "n" >>
\* "Wrapped2023.json"
NameWrapped ==
    << "W", "r", "a", "p", "p", "e", "d", "2", "0", "2", "3", ".", "j", "s", "o", "n" >>
\* "SearchQueries.json"
NameSearch ==
    << "S", "e", "a", "r", "c", "h", "Q", "u", "e", "r", "i", "e", "s", ".", "j", "s", "o", "n" >>
\* "StreamingHistory_Wrapped.json"
NameBoth ==
    << "S", "t", "r", "e", "a", "m", "i", "n", "g", "H", "i", "s", "t", "o", "r", "y", "_", "W", "r", "a", "p", "p", "e", "d", ".", "j", "s", "o", "n" >>
\* "Wrapped_SearchQueries.json"
NameWrappedSearch ==
    << "W", "r", "a", "p", "p", "e", "d", "_", "S", "e", "a", "r", "c", "h", "Q", "u", "e", "r", "i", "e", "s", ".", "j", "s", "o", "n" >>
\* "Playlist1.json"
NameOther ==
    << "P", "l", "a", "y", "l", "i", "s", "t", "1", ".", "j", "s", "o", "n" >>

Names ==
    { NameStreaming0, NameStreaming1, NameLowercase, NameWrapped, NameSearch,
      NameBoth, NameWrappedSearch, NameOther }

\* Python's `token in name` on strings: token occurs as a contiguous substring.
Contains(token, name) ==
    \E i \in 0..(Len(name) - Len(token)) :
        SubSeq(name, i + 1, i + Len(token)) = token

-----------------------------------------------------------------------------
(* Timestamps: pd.to_datetime, tz_localize('UTC'), tz_convert('US/Central') *)

DaysInMonth == << 31, 29, 31, 30, 31, 30, 31, 31, 30, 31, 30, 31 >>

RECURSIVE DaysBefore(_)
DaysBefore(month) ==
    IF month = 1 THEN 0 ELSE DaysBefore(month - 1) + DaysInMonth[month - 1]

\* A raw endTime "2024-MM-DD HH:mm" as its fields.
Stamp(month, day, hour, minute) ==
    [month |-> month, day |-> day, hour |-> hour, minute |-> minute]

\* pd.to_datetime accepts the string: the fields name a real wall-clock time.
Parses(ts) ==
    /\ ts.month \in 1..12
    /\ ts.day \in 1..DaysInMonth[ts.month]
    /\ ts.hour \in 0..23
    /\ ts.minute \in 0..59

\* pd.to_datetime then tz_localize('UTC'): the instant, in minutes since
\* 2024-01-01 00:00 UTC.  Declaring the zone does not shift the value.
to_datetime(ts) ==
    ((DaysBefore(ts.month) + (ts.day - 1)) * 24 + ts.hour) * 60 + ts.minute

\* US/Central in 2024: CDT from 2024-03-10 02:00 CST (08:00 UTC) until
\* 2024-11-03 02:00 CDT (07:00 UTC).
DstStart == to_datetime(Stamp(3, 10, 8, 0))
DstEnd == to_datetime(Stamp(11, 3, 7, 0))

\* A faulty variant of UtcOffsetHours: the standard offset all year.
StandardOffsetOnly(instant) == -6

UtcOffsetHours(instant) ==
    IF DstStart <= instant /\ instant < DstEnd THEN -5 ELSE -6

\* tz_convert('US/Central'): the local wall clock, in minutes since
\* 2024-01-01 00:00 local; negative for the last hours of 2023.
tz_convert(instant) == instant + UtcOffsetHours(instant) * 60

\* .dt.hour of a local wall clock
dt_hour(local) == (local \div 60) % 24

DayNames ==
    << "Monday", "Tuesday", "Wednesday", "Thursday", "Friday", "Saturday", "Sunday" >>

\* .dt.day_name(): 2024-01-01 is a Monday.
dt_day_name(local) == DayNames[((local \div 1440) % 7) + 1]

\* The calendar month of a local wall clock, as year * 12 + (month - 1), so
\* that months compare chronologically.  Local days before 2024-01-01 lie in
\* December 2023.
MonthOrdinal(local) ==
    LET d == local \div 1440
    IN  IF d < 0
        THEN 2024 * 12 - 1
        ELSE 2024 * 12 +
             (CHOOSE m \in 1..12 :
                  DaysBefore(m) <= d /\ d < DaysBefore(m) + DaysInMonth[m]) - 1

-----------------------------------------------------------------------------
(* Rows, tables and uploaded blobs *)

Row(ts, artist, track, ms) ==
    [endTime |-> ts, artistName |-> artist, trackName |-> track, msPlayed |-> ms]

\* The rows the single-file inputs are built from: plays on both sides of
\* the duration threshold, of the DST switches, of a local midnight, of a
\* local month end and of the local year end.
Rows ==
    { Row(Stamp(1, 1, 6, 30), "A", "T1", 200000),
      Row(Stamp(1, 1, 3, 0), "B", "T2", 30001),
      Row(Stamp(3, 10, 8, 0), "A", "T2", 30000),
      Row(Stamp(3, 10, 8, 0), "B", "T1", 45000),
      Row(Stamp(3, 10, 7, 30), "A", "T3", 60000),
      Row(Stamp(7, 1, 4, 0), "B", "T3", 10000),
      Row(Stamp(7, 1, 4, 0), "A", "T1", 90000),
      Row(Stamp(11, 3, 7, 0), "B", "T2", 120000),
      Row(Stamp(3, 1, 23, 0), "A", "T1", 200000) }

RECURSIVE TablesUpTo(_)
TablesUpTo(n) ==
    IF n = 0
    THEN { << >> }
    ELSE LET shorter == TablesUpTo(n - 1)
         IN  shorter \cup { Append(t, r) : t \in { u \in shorter : Len(u) = n - 1 }, r \in Rows }

\* A JSON payload: either text json cannot parse, or an array of records.
Json(rows) == [valid |-> TRUE, rows |-> rows]
Malformed == [valid |-> FALSE, rows |-> << >>]

\* The payloads of the multi-file inputs: unparseable text, the empty array,
\* one long play, one short play, a row whose endTime is no date
\* ("2024-13-01 00:00") and a row without the msPlayed key.
Bodies ==
    { Malformed,
      Json(<< >>),
      Json(<< Row(Stamp(3, 1, 23, 0), "A", "T1", 200000) >>),
      Json(<< Row(Stamp(3, 2, 1, 0), "B", "T2", 10000) >>),
      Json(<< Row(Stamp(13, 1, 0, 0), "A", "T1", 200000) >>),
      Json(<< [endTime |-> Stamp(3, 1, 23, 0), artistName |-> "A", trackName |-> "T1"] >>) }

Blob(name, body) == [name |-> name, body |-> body]

RECURSIVE UploadsUpTo(_)
UploadsUpTo(n) ==
    IF n = 0
    THEN { << >> }
    ELSE LET shorter == UploadsUpTo(n - 1)
         IN  shorter \cup
             { Append(u, Blob(nm, b)) :
                 u \in { v \in shorter : Len(v) = n - 1 },
                 nm \in Names, b \in Bodies }

NoData == [streaming |-> [none |-> TRUE, rows |-> << >>], wrapped |-> 0, search |-> 0]

NoRes ==
    [ total_ms |-> 0, unique_songs |-> 0, unique_artists |-> 0,
      monthly_listening |-> << >>,
      top_10_songs |-> << >>, top_10_artists |-> << >>,
      hourly_counts |-> << >>, daily_counts |-> << >>,
      top_artist_name |-> "", artist_df |-> << >>,
      artist_top_5 |-> << >>, artist_hourly |-> << >> ]

\* The pipeline variables before a script run has touched them.
Fresh ==
    /\ pc = "start"
    /\ data = NoData
    /\ df = << >>
    /\ res = NoRes
    /\ shown = {}
    /\ ui = << >>

NoRanking ==
    /\ col = << >>
    /\ topn = 0
    /\ ranked = << >>

\* The uploads a run starts from: any sequence of up to MaxFiles blobs, or
\* one primary file holding any table of up to MaxRows rows.
Init ==
    /\ \/ uploaded_files \in UploadsUpTo(MaxFiles)
       \/ \E t \in TablesUpTo(MaxRows) :
              uploaded_files = << Blob(NameStreaming0, Json(t)) >>
    /\ Fresh
    /\ NoRanking

-----------------------------------------------------------------------------
(* load_data *)

\* [f for f in uploaded_files if token in f.name], as positions in
\* uploaded_files (a file object is identified by its position).
FilesMatching(token, files) ==
    LET Hit(i) == Contains(token, files[i].name)
    IN  SelectSeq([i \in 1..Len(files) |-> i], Hit)

streaming_files(files) == FilesMatching(TOKEN_STREAMING, files)
wrapped_files(files) == FilesMatching(TOKEN_WRAPPED, files)
search_files(files) == FilesMatching(TOKEN_SEARCH, files)

Range(s) == { s[i] : i \in 1..Len(s) }

RECURSIVE concat(_, _)
\* pd.concat(df_list, ignore_index=True) over the files at positions idx
concat(files, idx) ==
    IF idx = << >>
    THEN << >>
    ELSE files[Head(idx)].body.rows \o concat(files, Tail(idx))

\* A read of the file at position i fails when its text is no JSON, or when
\* its stream was already read to the end by an earlier read.
ReadFails(files, i, already) == ~files[i].body.valid \/ i \in already

\* The reads load_data makes, in order: every primary file, then the first
\* summary file, then the first search file.  The first failing read raises.
LoadRaises(files) ==
    LET sf == streaming_files(files)
        wf == wrapped_files(files)
        qf == search_files(files)
        afterS == Range(sf)
        afterW == IF wf = << >> THEN afterS ELSE afterS \cup { wf[1] }
    IN  \/ \E k \in 1..Len(sf) : ReadFails(files, sf[k], {})
        \/ wf # << >> /\ ReadFails(files, wf[1], afterS)
        \/ qf # << >> /\ ReadFails(files, qf[1], afterW)

\* A faulty variant of load_data: the primary files are concatenated even when there
\* are none.
load_data_always_table(files) ==
    [ streaming |-> [none |-> FALSE, rows |-> concat(files, streaming_files(files))],
      wrapped |-> IF wrapped_files(files) = << >> THEN 0 ELSE wrapped_files(files)[1],
      search |-> IF search_files(files) = << >> THEN 0 ELSE search_files(files)[1] ]

\* The dict load_data returns when no read raised.
load_data(files) ==
    LET sf == streaming_files(files)
        wf == wrapped_files(files)
        qf == search_files(files)
    IN  [ streaming |-> IF sf = << >>
                        THEN [none |-> TRUE, rows |-> << >>]
                        ELSE [none |-> FALSE, rows |-> concat(files, sf)],
          wrapped |-> IF wf = << >> THEN 0 ELSE wf[1],
          search |-> IF qf = << >> THEN 0 ELSE qf[1] ]

-----------------------------------------------------------------------------
(* clean_data *)

Columns(t) == UNION { DOMAIN t[i] : i \in 1..Len(t) }

\* df['endTime'] of a table without that column, pd.to_datetime of a string
\* that is no date, or df['msPlayed'] of a table without that column.
CleanRaises(t) ==
    \/ "endTime" \notin Columns(t)
    \/ \E i \in 1..Len(t) : ~Parses(t[i].endTime)
    \/ "msPlayed" \notin Columns(t)

\* A faulty variant of LongEnough: the threshold taken as inclusive.
LongEnoughInclusive(r) == "msPlayed" \in DOMAIN r /\ r.msPlayed >= MinMsPlayed

\* df['msPlayed'] > 30000; a row without the key holds NaN and compares False.
LongEnough(r) == "msPlayed" \in DOMAIN r /\ r.msPlayed > MinMsPlayed

\* The hour column: .dt.hour of the converted endTime
hour_of(endTime) == dt_hour(endTime.wall)

\* The day_of_week column: .dt.day_name() of the converted endTime
day_of_week_of(endTime) == dt_day_name(endTime.wall)

\* One row through lines 46-56: endTime parsed, declared UTC and converted
\* (a zone-aware timestamp holds its instant and its local wall clock), then
\* hour and day_of_week read off the converted value.
Canonical(r) ==
    LET instant == to_datetime(r.endTime)
        endTime == [utc |-> instant, wall |-> tz_convert(instant)]
    IN  [ endTime |-> endTime,
          artistName |-> r.artistName,
          trackName |-> r.trackName,
          msPlayed |-> r.msPlayed,
          hour |-> hour_of(endTime),
          day_of_week |-> day_of_week_of(endTime) ]

\* df[df['msPlayed'] > 30000]: the rows kept, in their order
Filtered(t) == SelectSeq(t, LongEnough)

clean_data(t) ==
    LET kept == Filtered(t)
    IN  [i \in 1..Len(kept) |-> Canonical(kept[i])]

-----------------------------------------------------------------------------
(* Aggregations *)

Min(a, b) == IF a < b THEN a ELSE b

\* A column of a table: df['field']
Column(t, field) == [i \in 1..Len(t) |-> t[i][field]]

\* How often v occurs in a column
Occurrences(c, v) == Cardinality({ i \in 1..Len(c) : c[i] = v })

\* Series.nunique()
nunique(c) == Cardinality(Range(c))

RECURSIVE sum(_)
\* Series.sum()
sum(c) == IF c = << >> THEN 0 ELSE Head(c) + sum(Tail(c))

RECURSIVE DescendingOrders(_, _)
\* Every arrangement of the values S of column c by descending count.
DescendingOrders(S, c) ==
    IF S = {}
    THEN { << >> }
    ELSE LET most == CHOOSE n \in { Occurrences(c, v) : v \in S } :
                         \A v \in S : Occurrences(c, v) <= n
             first == { v \in S : Occurrences(c, v) = most }
         IN  UNION { { << [value |-> v, count |-> most] >> \o rest :
                         rest \in DescendingOrders(S \ {v}, c) } : v \in first }

\* Series.value_counts(): one entry per distinct value, sorted by descending
\* count with sort_values' default sort, which is not stable: values with
\* equal counts may come out in any order, so this is the set of the results
\* a build can produce.
value_counts(c) == DescendingOrders(Range(c), c)

\* A faulty variant of head: one entry too many.
head_one_more(s, n) == SubSeq(s, 1, Min(n + 1, Len(s)))

\* .head(n)
head(s, n) == SubSeq(s, 1, Min(n, Len(s)))

RECURSIVE AscendingIndex(_, _)
\* The values S of column c in ascending order, each with its count.
AscendingIndex(S, c) ==
    IF S = {}
    THEN << >>
    ELSE LET least == CHOOSE v \in S : \A w \in S : v <= w
         IN  << [value |-> least, count |-> Occurrences(c, least)] >>
                 \o AscendingIndex(S \ {least}, c)

\* Series.value_counts().sort_index(): the order of ties no longer shows.
value_counts_sort_index(c) == AscendingIndex(Range(c), c)

\* What reindex puts at a label the counted series does not have.
MissingCount == [nan |-> TRUE, n |-> 0]

\* Series.value_counts().reindex(labels): the labels in the given order, each
\* with its count, or NaN where the column has no such value.
value_counts_reindex(c, labels) ==
    [i \in 1..Len(labels) |->
        [ value |-> labels[i],
          count |-> IF labels[i] \in Range(c)
                    THEN [nan |-> FALSE, n |-> Occurrences(c, labels[i])]
                    ELSE MissingCount ]]

RECURSIVE MonthsPresent(_, _)
MonthsPresent(S, months) ==
    IF S = {}
    THEN << >>
    ELSE LET m == CHOOSE a \in S : \A b \in S : a <= b
         IN  << [month |-> m, count |-> Occurrences(months, m)] >>
                 \o MonthsPresent(S \ {m}, months)

\* A faulty variant of resample_M_size: a plain group-by, months without rows left out.
groupby_month_size(t) ==
    LET months == [i \in 1..Len(t) |-> MonthOrdinal(t[i].endTime.wall)]
    IN  MonthsPresent(Range(months), months)

\* df.set_index('endTime').resample('M').size(): one bin per calendar month
\* of the local wall clock, from the month of the earliest row to the month
\* of the latest, each with the number of rows in it (0 for a month without
\* rows); no bin for an empty table.
resample_M_size(t) ==
    IF t = << >>
    THEN << >>
    ELSE LET months == [i \in 1..Len(t) |-> MonthOrdinal(t[i].endTime.wall)]
             lo == CHOOSE m \in Range(months) : \A k \in Range(months) : m <= k
             hi == CHOOSE m \in Range(months) : \A k \in Range(months) : k <= m
         IN  [j \in 1..(hi - lo + 1) |->
                 [month |-> lo + j - 1, count |-> Occurrences(months, lo + j - 1)]]

\* df[df['artistName'] == name]
ArtistRows(t, name) ==
    LET Is(r) == r.artistName = name
    IN  SelectSeq(t, Is)

-----------------------------------------------------------------------------
(* The script run, lines 76-165 *)

RankingIdle == UNCHANGED << col, topn, ranked >>

\* Lines 164-165: nothing uploaded.
NoUpload ==
    /\ pc = "start"
    /\ uploaded_files = << >>
    /\ ui' = Append(ui, "info")
    /\ pc' = "done"
    /\ UNCHANGED << uploaded_files, data, df, res, shown >>
    /\ RankingIdle

\* Line 80: load_data returns the dict or raises.
LoadData ==
    /\ pc = "start"
    /\ uploaded_files # << >>
    /\ IF LoadRaises(uploaded_files)
       THEN /\ pc' = "except"
            /\ data' = data
       ELSE /\ pc' = "loaded"
            /\ data' = load_data(uploaded_files)
    /\ UNCHANGED << uploaded_files, df, res, shown, ui >>
    /\ RankingIdle

\* Lines 83-84: no primary table, the prompt.
NoPrimary ==
    /\ pc = "loaded"
    /\ data.streaming.none
    /\ ui' = Append(ui, "warning: upload StreamingHistory")
    /\ pc' = "done"
    /\ UNCHANGED << uploaded_files, data, df, res, shown >>
    /\ RankingIdle

\* Lines 86-98: clean_data, then the success banner and the tabs.
CleanData ==
    /\ pc = "loaded"
    /\ ~data.streaming.none
    /\ IF CleanRaises(data.streaming.rows)
       THEN /\ pc' = "except"
            /\ UNCHANGED << df, ui >>
       ELSE /\ df' = clean_data(data.streaming.rows)
            /\ ui' = Append(ui, "success")
            /\ pc' = "tab1"
    /\ UNCHANGED << uploaded_files, data, res, shown >>
    /\ RankingIdle

\* Lines 100-114: the three metrics and the monthly line chart.
Tab1 ==
    /\ pc = "tab1"
    /\ res' = [res EXCEPT
                 !.total_ms = sum(Column(df, "msPlayed")),
                 !.unique_songs = nunique(Column(df, "trackName")),
                 !.unique_artists = nunique(Column(df, "artistName")),
                 !.monthly_listening = resample_M_size(df)]
    /\ shown' = shown \cup { "totals", "monthly_listening" }
    /\ pc' = "tab2"
    /\ UNCHANGED << uploaded_files, data, df, ui >>
    /\ RankingIdle

\* Lines 116-126: the two top-10 tables.
Tab2 ==
    /\ pc = "tab2"
    /\ \E songs \in value_counts(Column(df, "trackName")),
          artists \in value_counts(Column(df, "artistName")) :
            res' = [res EXCEPT
                      !.top_10_songs = head(songs, Top10),
                      !.top_10_artists = head(artists, Top10)]
    /\ shown' = shown \cup { "top_10_songs", "top_10_artists" }
    /\ pc' = "tab3"
    /\ UNCHANGED << uploaded_files, data, df, ui >>
    /\ RankingIdle

\* Lines 128-143: both histograms are computed and drawn into one figure,
\* which st.pyplot hands over at the end.
Tab3 ==
    /\ pc = "tab3"
    /\ res' = [res EXCEPT
                 !.hourly_counts = value_counts_sort_index(Column(df, "hour")),
                 !.daily_counts = value_counts_reindex(Column(df, "day_of_week"), DayNames)]
    /\ shown' = shown \cup { "hourly_counts", "daily_counts" }
    /\ pc' = "tab4"
    /\ UNCHANGED << uploaded_files, data, df, ui >>
    /\ RankingIdle

\* Line 133 on a table without rows: whether sns.barplot draws an empty
\* series or raises depends on the seaborn in use; this is the raising one.
Tab3Raises ==
    /\ pc = "tab3"
    /\ df = << >>
    /\ res' = [res EXCEPT
                 !.hourly_counts = value_counts_sort_index(Column(df, "hour"))]
    /\ pc' = "except"
    /\ UNCHANGED << uploaded_files, data, df, shown, ui >>
    /\ RankingIdle

\* Lines 145-158: the top artist, the artist's top-5 tracks and hours.
\* value_counts().index[0] of a table without rows raises IndexError.  The
\* same call on the same column gives what it gave in tab2.
Tab4 ==
    /\ pc = "tab4"
    /\ IF df = << >>
       THEN /\ pc' = "except"
            /\ UNCHANGED << res, shown >>
       ELSE LET name == res.top_10_artists[1].value
                artist_df == ArtistRows(df, name)
            IN  /\ \E tracks \in value_counts(Column(artist_df, "trackName")) :
                       res' = [res EXCEPT
                                 !.top_artist_name = name,
                                 !.artist_df = artist_df,
                                 !.artist_top_5 = head(tracks, Top5),
                                 !.artist_hourly =
                                     value_counts_sort_index(Column(artist_df, "hour"))]
                /\ shown' = shown \cup { "top_artist_name", "artist_top_5", "artist_hourly" }
                /\ pc' = "done"
    /\ UNCHANGED << uploaded_files, data, df, ui >>
    /\ RankingIdle

\* Lines 160-162: the handler of every exception raised in the try block.
Except ==
    /\ pc = "except"
    /\ ui' = ui \o << "error", "warning: check files" >>
    /\ pc' = "done"
    /\ UNCHANGED << uploaded_files, data, df, res, shown >>
    /\ RankingIdle

Next ==
    \/ NoUpload
    \/ LoadData
    \/ NoPrimary
    \/ CleanData
    \/ Tab1
    \/ Tab2
    \/ Tab3
    \/ Tab3Raises
    \/ Tab4
    \/ Except

Spec == Init /\ [][Next]_vars

-----------------------------------------------------------------------------
(* Ranking study: value_counts().head(N) on columns long enough for the     *)
(* cut to bite (lines 118, 119 and 150)                                     *)

Max(a, b) == IF a < b THEN b ELSE a

RECURSIVE Largest(_)
Largest(c) == IF c = << >> THEN 0 ELSE Max(Head(c), Largest(Tail(c)))

RECURSIVE ColumnsUpTo(_)
\* The columns of up to n entries, one per pattern of repetition: values are
\* numbered in the order in which they first occur (1, then 2, ...), which
\* covers every column up to a renaming of its values.
ColumnsUpTo(n) ==
    IF n = 0
    THEN { << >> }
    ELSE LET shorter == ColumnsUpTo(n - 1)
         IN  shorter \cup
             UNION { { Append(c, v) : v \in 1..(Largest(c) + 1) } :
                       c \in { d \in shorter : Len(d) = n - 1 } }

InitTop ==
    /\ uploaded_files = << >>
    /\ pc = "rank"
    /\ data = NoData
    /\ df = << >>
    /\ res = NoRes
    /\ shown = {}
    /\ ui = << >>
    /\ col \in ColumnsUpTo(MaxCol)
    /\ topn \in { Top5, Top10 }
    /\ ranked = << >>

\* df[field].value_counts().head(N)
Rank ==
    /\ pc = "rank"
    /\ \E order \in value_counts(col) : ranked' = head(order, topn)
    /\ pc' = "ranked"
    /\ UNCHANGED << uploaded_files, data, df, res, shown, ui, col, topn >>

NextTop == Rank

SpecTop == InitTop /\ [][NextTop]_vars

-----------------------------------------------------------------------------
(* Properties *)

\* clean_data returned: the success banner follows it at once.
Cleaned == "success" \in Range(ui)

\* The raw combined table given to clean_data
raw_df == data.streaming.rows

\* Positions of the raw rows that played for more than 30 seconds
LongRows == { i \in 1..Len(raw_df) :
                "msPlayed" \in DOMAIN raw_df[i] /\ raw_df[i].msPlayed > 30000 }

\* Where the raw row at position i stands among the long rows
RankAmongLong(i) == Cardinality({ j \in LongRows : j <= i })

RECURSIVE SumOver(_)
SumOver(S) ==
    IF S = {}
    THEN 0
    ELSE LET i == CHOOSE j \in S : TRUE
         IN  raw_df[i].msPlayed + SumOver(S \ {i})

\* C1: every row of the canonical table has msPlayed > 30000, the canonical
\* table is exactly the raw rows with msPlayed > 30000 in their order, and
\* the total handed to the page sums those rows only.
C1_OnlyLongPlaysSurvive ==
    Cleaned =>
        /\ \A k \in 1..Len(df) : df[k].msPlayed > 30000
        /\ Len(df) = Cardinality(LongRows)
        /\ \A i \in LongRows :
               LET r == df[RankAmongLong(i)]
               IN  /\ r.msPlayed = raw_df[i].msPlayed
                   /\ r.artistName = raw_df[i].artistName
                   /\ r.trackName = raw_df[i].trackName
        /\ "totals" \in shown => res.total_ms = SumOver(LongRows)

\* A table with a play of exactly 30000 ms, one of 30001 ms and a longer one
\* went through clean_data and the totals.
C1_Witness ==
    /\ "totals" \in shown
    /\ Len(raw_df) = 3
    /\ \A i \in 1..3 : "msPlayed" \in DOMAIN raw_df[i]
    /\ \E i \in 1..3 : raw_df[i].msPlayed = 30000
    /\ \E i \in 1..3 : raw_df[i].msPlayed = 30001
    /\ Len(df) = 2

\* The offset of US/Central at an instant given in minutes since
\* 2024-01-01 00:00 UTC: -05:00 from 2024-03-10 08:00 UTC (minute 99840)
\* until 2024-11-03 07:00 UTC (minute 442500), -06:00 otherwise.
CentralOffset(utc) == IF 99840 <= utc /\ utc < 442500 THEN -5 ELSE -6

\* C2: hour and day_of_week of every canonical row are those of the instant
\* shifted by the US/Central offset in force at that instant, not those of
\* the UTC instant: 2024-01-01 06:30 UTC is hour 0 of a Monday, 2024-01-01
\* 03:00 UTC is hour 21 of a Sunday, 2024-07-01 04:00 UTC is hour 23 of a
\* Sunday (-05:00), 2024-11-03 07:00 UTC is hour 1 (-06:00 again).
C2_HourAndDayAreLocal ==
    Cleaned =>
        /\ \A k \in 1..Len(df) :
               LET utc == df[k].endTime.utc
                   local == utc + CentralOffset(utc) * 60
               IN  /\ df[k].hour = (local \div 60) % 24
                   /\ df[k].day_of_week = DayNames[((local \div 1440) % 7) + 1]
        /\ \A i \in LongRows :
               LET r == df[RankAmongLong(i)]
                   ts == raw_df[i].endTime
               IN  /\ ts = Stamp(1, 1, 6, 30) => r.hour = 0 /\ r.day_of_week = "Monday"
                   /\ ts = Stamp(1, 1, 3, 0) => r.hour = 21 /\ r.day_of_week = "Sunday"
                   /\ ts = Stamp(3, 10, 7, 30) => r.hour = 1 /\ r.day_of_week = "Sunday"
                   /\ ts = Stamp(3, 10, 8, 0) => r.hour = 3 /\ r.day_of_week = "Sunday"
                   /\ ts = Stamp(7, 1, 4, 0) => r.hour = 23 /\ r.day_of_week = "Sunday"
                   /\ ts = Stamp(11, 3, 7, 0) => r.hour = 1 /\ r.day_of_week = "Sunday"
                   /\ ts = Stamp(3, 1, 23, 0) => r.hour = 17 /\ r.day_of_week = "Friday"

\* A canonical table holding a winter play, a summer play and a play whose
\* local day is the day before its UTC day.
C2_Witness ==
    /\ Cleaned
    /\ Len(df) = 3
    /\ \E k \in 1..3 : df[k].endTime.utc = 390 /\ df[k].hour = 0
    /\ \E k \in 1..3 : df[k].endTime.utc = 180 /\ df[k].day_of_week = "Sunday"
    /\ \E k \in 1..3 : df[k].endTime.utc > 99840 /\ df[k].hour = 23

\* Positions of the uploaded blobs whose name holds the token
Holding(token) ==
    { i \in 1..Len(uploaded_files) : Contains(token, uploaded_files[i].name) }

Lowest(S) == CHOOSE i \in S : \A j \in S : i <= j

\* Something was uploaded and no blob is classified as primary.
NoPrimaryUploaded ==
    /\ uploaded_files # << >>
    /\ Holding(TOKEN_STREAMING) = {}

\* The first summary blob and the first search blob, where there is one, are
\* JSON and are not one and the same blob (whose second read finds the
\* stream at its end).
SideReadsSucceed ==
    LET W == Holding(TOKEN_WRAPPED)
        Q == Holding(TOKEN_SEARCH)
    IN  /\ W # {} => uploaded_files[Lowest(W)].body.valid
        /\ Q # {} => uploaded_files[Lowest(Q)].body.valid
        /\ (W # {} /\ Q # {}) => Lowest(W) # Lowest(Q)

NoAggregationRan ==
    /\ pc \notin { "tab1", "tab2", "tab3", "tab4" }
    /\ ~Cleaned
    /\ df = << >>
    /\ res = NoRes
    /\ shown = {}

\* C3 as stated: without a primary blob the run always ends with load_data
\* having returned streaming = None and the caller's prompt, nothing else,
\* whatever summary or search files were uploaded.
C3_AsStated ==
    (NoPrimaryUploaded /\ pc = "done") =>
        /\ ui = << "warning: upload StreamingHistory" >>
        /\ NoAggregationRan

\* C3, amended: without a primary blob neither clean_data nor any
\* aggregation ever runs; the run ends with streaming = None and the prompt
\* when the reads of the first summary and first search blob succeed, and
\* with the error report when one of them raises.
C3_NoPrimaryNeverAggregates ==
    NoPrimaryUploaded =>
        /\ NoAggregationRan
        /\ data.streaming.none
        /\ pc = "done" =>
               IF SideReadsSucceed
               THEN ui = << "warning: upload StreamingHistory" >>
               ELSE ui = << "error", "warning: check files" >>

\* A run over a summary file and a search file, both readable, ended with
\* the prompt.
C3_Witness ==
    /\ NoPrimaryUploaded
    /\ Holding(TOKEN_WRAPPED) # {}
    /\ Holding(TOKEN_SEARCH) # {}
    /\ pc = "done"
    /\ data.wrapped # 0
    /\ data.search # 0
    /\ ui = << "warning: upload StreamingHistory" >>

\* Where value v first occurs in the ranked column
FirstAt(v) == Lowest({ i \in 1..Len(col) : col[i] = v })

RankedValues == { ranked[i].value : i \in 1..Len(ranked) }

\* The parts of C4 that do not depend on how ties fall: min(N, distinct)
\* entries, no value twice, each with its occurrence count, counts
\* descending, and no value left out that occurs more often than one kept.
TopNByCount ==
    /\ Len(ranked) = Min(topn, Cardinality(Range(col)))
    /\ RankedValues \subseteq Range(col)
    /\ Cardinality(RankedValues) = Len(ranked)
    /\ \A i \in 1..Len(ranked) :
           ranked[i].count = Cardinality({ k \in 1..Len(col) : col[k] = ranked[i].value })
    /\ \A i \in 1..Len(ranked), j \in 1..Len(ranked) :
           i < j => ranked[i].count >= ranked[j].count
    /\ \A v \in Range(col) \ RankedValues, i \in 1..Len(ranked) :
           Cardinality({ k \in 1..Len(col) : col[k] = v }) <= ranked[i].count

RowsWith(t, field, v) == Cardinality({ k \in 1..Len(t) : t[k][field] = v })

\* C5 as stated: for a non-empty canonical table the day-of-week histogram
\* has the 7 days Monday..Sunday in order, each with the integer number of
\* rows of that day, 0 (not a missing value) for a day without rows.
C5_AsStated ==
    ("daily_counts" \in shown /\ df # << >>) =>
        /\ Len(res.daily_counts) = 7
        /\ \A i \in 1..7 :
               /\ res.daily_counts[i].value = DayNames[i]
               /\ ~res.daily_counts[i].count.nan
               /\ res.daily_counts[i].count.n = RowsWith(df, "day_of_week", DayNames[i])

\* A histogram over hours: the 24 hours 0..23 in order, each with the
\* number of rows of table t in that hour, 0 where there is none.
AllHours(h, t) ==
    /\ Len(h) = 24
    /\ \A i \in 1..24 :
           /\ h[i].value = i - 1
           /\ h[i].count = RowsWith(t, "hour", i - 1)

\* C6 as stated: the hour-of-day histogram of the whole table and of the
\* artist slice has exactly 24 entries, hours 0..23 ascending, zero-filled.
C6_AsStated ==
    /\ "hourly_counts" \in shown => AllHours(res.hourly_counts, df)
    /\ "artist_hourly" \in shown => AllHours(res.artist_hourly, res.artist_df)

\* The local calendar months in which a canonical row falls
MonthsWithRows == { MonthOrdinal(df[k].endTime.wall) : k \in 1..Len(df) }

RowsInMonth(m) ==
    Cardinality({ k \in 1..Len(df) : MonthOrdinal(df[k].endTime.wall) = m })

\* C7 as stated: the monthly series has an entry for exactly the local
\* months in which a row falls, chronologically ascending; a month without
\* rows is absent, never present with count 0.
C7_AsStated ==
    "monthly_listening" \in shown =>
        LET s == res.monthly_listening
        IN  /\ { s[i].month : i \in 1..Len(s) } = MonthsWithRows
            /\ \A i \in 1..Len(s) : s[i].count = RowsInMonth(s[i].month) /\ s[i].count > 0
            /\ \A i \in 1..Len(s), j \in 1..Len(s) : i < j => s[i].month < s[j].month

\* C7, amended: the monthly series has one entry for every local calendar
\* month from the earliest month with a row to the latest, chronologically
\* ascending whatever the row order, each with the number of rows in that
\* month; a month in between without rows is present with count 0, and an
\* empty table gives an empty series.  2024-01-01 03:00 UTC counts in
\* December 2023 (month 24287) and 2024-07-01 04:00 UTC in June 2024 (24293).
C7_EveryMonthOfTheSpan ==
    "monthly_listening" \in shown =>
        LET s == res.monthly_listening
        IN  /\ df = << >> => s = << >>
            /\ df # << >> =>
                   /\ s # << >>
                   /\ s[1].month \in MonthsWithRows
                   /\ s[Len(s)].month \in MonthsWithRows
                   /\ \A m \in MonthsWithRows : s[1].month <= m /\ m <= s[Len(s)].month
            /\ \A i \in 1..(Len(s) - 1) : s[i + 1].month = s[i].month + 1
            /\ \A i \in 1..Len(s) : s[i].count = RowsInMonth(s[i].month)
            /\ \A k \in 1..Len(df) :
                   /\ df[k].endTime.utc = 180 =>
                          \E i \in 1..Len(s) : s[i].month = 24287 /\ s[i].count >= 1
                   /\ df[k].endTime.utc = 262320 =>
                          \E i \in 1..Len(s) : s[i].month = 24293 /\ s[i].count >= 1

\* A series over rows that are not in time order, with an empty month
\* between two months that have rows.
C7_Witness ==
    /\ "monthly_listening" \in shown
    /\ Len(df) >= 2
    /\ df[1].endTime.utc > df[2].endTime.utc
    /\ \E i \in 1..Len(res.monthly_listening) : res.monthly_listening[i].count = 0

\* C8 as stated: on an empty canonical table no aggregation hands an empty
\* result to the page as if it were valid, and the run ends in an error.
C8_AsStated ==
    (Cleaned /\ df = << >>) =>
        /\ shown = {}
        /\ pc = "done" => "error" \in Range(ui)

AllResults ==
    { "totals", "monthly_listening", "top_10_songs", "top_10_artists",
      "hourly_counts", "daily_counts",
      "top_artist_name", "artist_top_5", "artist_hourly" }

\* C9 as stated: a run that ends in an error has handed no aggregation
\* result to the page; a run hands over all results or none.
C9_AsStated ==
    pc = "done" =>
        /\ shown \in { {}, AllResults }
        /\ "error" \in Range(ui) => shown = {}

\* C10 as stated: once load_data has classified the upload, every blob is in
\* at most one of the three groups, a blob holding no token is in none, and
\* each group lists its blobs in upload order.
C10_AsStated ==
    pc \in { "loaded", "except" } =>
        LET S == streaming_files(uploaded_files)
            W == wrapped_files(uploaded_files)
            Q == search_files(uploaded_files)
            Ascending(g) == \A i \in 1..Len(g), j \in 1..Len(g) : i < j => g[i] < g[j]
        IN  /\ \A i \in 1..Len(uploaded_files) :
                   /\ ~(i \in Range(S) /\ i \in Range(W))
                   /\ ~(i \in Range(S) /\ i \in Range(Q))
                   /\ ~(i \in Range(W) /\ i \in Range(Q))
            /\ \A i \in 1..Len(uploaded_files) :
                   (i \notin Holding(TOKEN_STREAMING) \cup Holding(TOKEN_WRAPPED)
                         \cup Holding(TOKEN_SEARCH))
                       => i \notin Range(S) \cup Range(W) \cup Range(Q)
            /\ Ascending(S) /\ Ascending(W) /\ Ascending(Q)

====
